---- MODULE Spec2Model ----
(***************************************************************************)
(* Model of the playback engine of slowed-and-reverb                       *)
(* (src/src/audio/engine.ts, namespace Engine, lines 97-275).              *)
(*                                                                         *)
(* Time and positions are exact fixed-point numbers: one second is Scale   *)
(* units.  The playback rate is kept in units of 1/RateDen, so rate 1.0 is *)
(* RateDen and rate 0.5 is RateDen \div 2.  Scale is chosen so that every  *)
(* division the engine performs within the bound on rate changes is exact. *)
(*                                                                         *)
(* The engine runs on one thread.  Its asynchronous operations are split   *)
(* at their suspend points: load() at the decode, play() at                *)
(* `await ctx.resume()`.  What the platform does in between - the decode   *)
(* settling, ctx.resume() settling, a node's ended event being delivered,  *)
(* the audio clock advancing - happens in any order, as the platform       *)
(* guarantees none.                                                        *)
(*                                                                         *)
(* Five specifications: Spec is the transport; FxSpec adds the reverb      *)
(* parameters and renderWav() over a shorter horizon; EncSpec and IrSpec   *)
(* are audioBufferToWav and makeImpulseResponse                            *)
(* (src/src/audio/helpers.ts) on their own; MsSpec is the Transport Mirror *)
(* (src/src/audio/mediaSession.ts) on top of the engine.                   *)
(***************************************************************************)
EXTENDS Integers, Sequences, FiniteSets, Bags, TLC

\* ---------------------------------------------------------------- bounds
MaxTime == 2          \* the audio clock is followed for this many seconds
MaxOutstanding == 2   \* decodes outstanding, play() calls suspended and
                      \* source nodes alive, together
MaxRateChanges == 1   \* setPlaybackRate calls followed
FxTime == 1           \* the same bounds on the clock and on what is
FxOutstanding == 1    \* outstanding, where the effects are followed too
MaxSamples == 2       \* frames of the buffer handed to audioBufferToWav
MaxChannels == 2      \* and its channels
MaxSample == 6        \* largest magnitude of a sample, in 1/SampleDen
MaxIrRate == 8        \* sample rates given to makeImpulseResponse
MaxIrTail == 7        \* and tail lengths given to it, in 1/IrDen second
MsTime == 1           \* the bounds on the clock and on what is outstanding
MsOutstanding == 1    \* where the Transport Mirror is followed too

RECURSIVE Pow2(_)
Pow2(n) == IF n = 0 THEN 1 ELSE 2 * Pow2(n - 1)

RateDen == 2
Scale == Pow2(MaxRateChanges)

\* playback rates 0.5 and 1.0, in units of 1/RateDen
Rates == {1, 2}
\* decoded durations of the files the user may pick, in seconds
Files == {1, 2}
\* seek targets, in seconds: before the start, inside, at or past the end
SeekTargets == {-1, 1, 2}
\* reverb volumes (wet gain) and reverb tail lengths, the latter in units of
\* 1/LenDen second
LenDen == 2
ReverbVolumes == {0, 1}
ReverbLengths == {0, 1}
\* ctx.sampleRate, in frames per second
SampleRate == 3

VARIABLES
    buffer,        \* duration of the decoded AudioBuffer in units; 0 = undefined
    pausedAt,
    startedAt,
    isPlaying,
    playbackRate,
    reverbVolume,
    reverbLength,
    source,        \* the node the engine refers to; st = "none" is undefined
    manualEnd,
    orphans,       \* bag of the nodes the engine no longer refers to that
                   \* still play or still have their ended event queued
    clock,         \* ctx.currentTime, in units
    ctxRunning,    \* ctx.state = "running"
    playsPending,  \* play() calls suspended at `await ctx.resume()`
    loads,         \* load() calls suspended at the decode, in issue order
    rateChanges,   \* number of setPlaybackRate calls so far
    last,          \* the step taken last: its name, the state it found, its input
    watch,         \* the call whose outcome is being followed, see Watch
    pcm,           \* audioBufferToWav: the channels of the buffer it is
                   \* given, each the sequence of its samples
    sr,            \* audioBufferToWav: the sample rate of that buffer
    hdr,           \* audioBufferToWav: the header written, see wavHeader
    wav,           \* audioBufferToWav: the 16-bit values written so far
    blob,          \* audioBufferToWav: the size in bytes of the Blob
                   \* returned; 0 before the return
    irArgs,        \* makeImpulseResponse: ctx.sampleRate and seconds
    ir,            \* makeImpulseResponse: the buffer returned
    ms             \* the Transport Mirror and what it has handed to the
                   \* platform's media session, see NoMirror

vars == <<buffer, pausedAt, startedAt, isPlaying, playbackRate,
          reverbVolume, reverbLength, source, manualEnd, orphans, clock,
          ctxRunning, playsPending, loads,
          rateChanges, last, watch, pcm, sr, hdr, wav, blob, irArgs, ir,
          ms>>

msVars == <<ms>>

encVars == <<pcm, sr, hdr, wav, blob>>

irVars == <<irArgs, ir>>

Max(a, b) == IF a >= b THEN a ELSE b
Min(a, b) == IF a <= b THEN a ELSE b
clamp(x, lo, hi) == Max(lo, Min(hi, x))

\* The engine's own fields, as one record the operations transform.
Eng == [buffer |-> buffer, pausedAt |-> pausedAt, startedAt |-> startedAt,
        isPlaying |-> isPlaying, playbackRate |-> playbackRate,
        reverbVolume |-> reverbVolume, reverbLength |-> reverbLength,
        source |-> source, manualEnd |-> manualEnd, orphans |-> orphans,
        playsPending |-> playsPending, loads |-> loads]

engineVars == <<buffer, pausedAt, startedAt, isPlaying, playbackRate,
                reverbVolume, reverbLength, source, manualEnd, orphans,
                playsPending, loads>>

SetEng(e) ==
    /\ buffer' = e.buffer
    /\ pausedAt' = e.pausedAt
    /\ startedAt' = e.startedAt
    /\ isPlaying' = e.isPlaying
    /\ playbackRate' = e.playbackRate
    /\ reverbVolume' = e.reverbVolume
    /\ reverbLength' = e.reverbLength
    /\ source' = e.source
    /\ manualEnd' = e.manualEnd
    /\ orphans' = e.orphans
    /\ playsPending' = e.playsPending
    /\ loads' = e.loads

\* ---------------------------------------------------------------- getters
\* (now - startedAt) * playbackRate, the projected playhead
projected(e, now) == ((now - e.startedAt) * e.playbackRate) \div RateDen

getPosition(e, now) ==
    IF e.buffer = 0 THEN 0
    ELSE IF e.isPlaying THEN Max(0, Min(e.buffer, projected(e, now)))
    ELSE e.pausedAt

getDuration(e) == IF e.buffer # 0 THEN e.buffer ELSE 0

getIsPlaying(e) == e.isPlaying

\* ---------------------------------------------------------------- nodes
\* AudioScheduledSourceNode.stop(): a playing node stops and its ended event
\* is queued; a node that already stopped or ended is left alone.
\* A node that no longer plays keeps nothing the engine can observe: its
\* playhead, rate and buffer are dropped.
halted(n, how) == [n EXCEPT !.st = how, !.evt = TRUE,
                            !.head = 0, !.rate = 0, !.dur = 0]

nodeStop(n) == IF n.st = "playing" THEN halted(n, "stopped") ELSE n

\* no node: the value of `source` before the first play()
NoNode == [st |-> "none", head |-> 0, rate |-> 0, dur |-> 0,
           evt |-> FALSE, touched |-> FALSE]

\* a node whose ended event has been delivered
Done == [NoNode EXCEPT !.st = "done"]

\* a node the platform still has work for
Live(n) == n.st = "playing" \/ n.evt

\* source?.stop()
sourceStop(e) == nodeStop(e.source)

\* createBufferSource() followed by source.start(0, offset): the node plays
\* the buffer it was given from offset (clamped by the platform to the
\* buffer), and ends at once when that is the end of the buffer.
newNode(e, offset) ==
    LET at == clamp(offset, 0, e.buffer)
        n == [st |-> "playing", head |-> at, rate |-> e.playbackRate,
              dur |-> e.buffer, evt |-> FALSE, touched |-> FALSE]
    IN IF at >= e.buffer THEN halted(n, "ended") ELSE n

\* ---------------------------------------------------------------- controls
\* pause() that forgets to capture the playhead
pause_keepsOldPosition(e, now) ==
    IF e.buffer = 0 THEN e
    ELSE [e EXCEPT !.manualEnd = TRUE,
                   !.source = sourceStop(e),
                   !.isPlaying = FALSE]

\* pause(): the value `pausedAt = getPosition()` stores first is overwritten
\* at once by the projection of the clock, whether or not the engine plays
pause(e, now) ==
    IF e.buffer = 0 THEN e
    ELSE [e EXCEPT !.manualEnd = TRUE,
                   !.pausedAt = Max(0, Min(e.buffer, projected(e, now))),
                   !.source = sourceStop(e),
                   !.isPlaying = FALSE]

\* stop() that forgets to rewind
stop_withoutRewind(e, now) == pause(e, now)

stop(e, now) == [pause(e, now) EXCEPT !.pausedAt = 0]

\* play() that does not look for a buffer first
playCall_unguarded(e) ==
    IF e.isPlaying THEN e
    ELSE [e EXCEPT !.playsPending = @ + 1]

\* play() up to its suspend point `await ctx.resume()`
playCall(e) ==
    IF e.buffer = 0 THEN e
    ELSE IF e.isPlaying THEN e
    ELSE [e EXCEPT !.playsPending = @ + 1]

\* play() after ctx.resume() resolved: nothing is checked again (`source` was
\* just assigned, so `if (!source) return` never returns); the node is
\* started at pausedAt as it is, startedAt uses the clamped startOffset
playResume(e, now) ==
    LET startOffset == Max(0, Min(e.buffer, e.pausedAt))
        made == [e EXCEPT !.orphans = IF Live(e.source)
                                        THEN @ (+) SetToBag({e.source})
                                        ELSE @,
                          !.source = newNode(e, e.pausedAt)]
    IN [made EXCEPT !.playsPending = @ - 1,
                    !.manualEnd = FALSE,
                    !.isPlaying = TRUE,
                    !.startedAt = now - (startOffset * RateDen) \div e.playbackRate]

\* play() that marks the engine playing before the clock has resumed
playBlocked_marksPlaying(e) ==
    [e EXCEPT !.playsPending = @ - 1, !.isPlaying = TRUE]

\* play() after ctx.resume() rejected: the await throws and no statement
\* after it runs
playBlocked(e) == [e EXCEPT !.playsPending = @ - 1]

\* seek() that stores the target without clamping it
seek_unclamped(e, now, time) ==
    IF e.buffer = 0 THEN e
    ELSE LET wasPlaying == e.isPlaying
             p == [pause(e, now) EXCEPT !.pausedAt = time]
         IN IF wasPlaying THEN playCall(p) ELSE p

seek(e, now, time) ==
    IF e.buffer = 0 THEN e
    ELSE LET target == Max(0, Min(e.buffer, time))
             wasPlaying == e.isPlaying
             p == [pause(e, now) EXCEPT !.pausedAt = target]
         IN IF wasPlaying THEN playCall(p) ELSE p

\* load() that leaves the transport alone until the decode has settled
loadCall_keepsTransport(e, now, file) == [e EXCEPT !.loads = Append(@, file)]

\* load() up to its suspend point: stop(), then the decode is outstanding
loadCall(e, now, file) == [stop(e, now) EXCEPT !.loads = Append(@, file)]

\* load() after decodeAudioData resolved with the i-th outstanding decode
RemoveAt(s, i) == SubSeq(s, 1, i - 1) \o SubSeq(s, i + 1, Len(s))

loadDone(e, i) == [e EXCEPT !.buffer = e.loads[i] * Scale,
                            !.loads = RemoveAt(@, i)]

\* load() that drops the decoded signal when a decode is rejected
loadFail_clearsBuffer(e, i) == [e EXCEPT !.buffer = 0,
                                         !.loads = RemoveAt(@, i)]

\* load() after decodeAudioData rejected (the file is no audio the platform
\* decodes): the assignment is never reached
loadFail(e, i) == [e EXCEPT !.loads = RemoveAt(@, i)]

setPlaybackRate(e, speed) ==
    [e EXCEPT !.playbackRate = speed,
              !.source = IF e.source.st = "playing"
                         THEN [@ EXCEPT !.rate = speed] ELSE @]

setReverbVolume(e, volume) == [e EXCEPT !.reverbVolume = volume]

\* setReverbLength() that rebuilds the graph and so halts playback
setReverbLength_restarts(e, seconds) ==
    [e EXCEPT !.reverbLength = seconds,
              !.source = sourceStop(e),
              !.isPlaying = FALSE]

\* setReverbLength(): the tail is stored and the convolver of the live graph
\* is given a new impulse response; no transport field is assigned
setReverbLength(e, seconds) == [e EXCEPT !.reverbLength = seconds]

\* ------------------------------------------------------------- renderWav
\* the loaded files: the 1 s file is mono, the 2 s file is stereo
numberOfChannels(e) == e.buffer \div Scale

\* Math.ceil of the quotient a / b, b > 0
CeilDiv(a, b) == -((-a) \div b)

\* a frame count that drops the fraction of a frame
outFrames_floor(e) ==
    ((e.buffer * RateDen * LenDen
        + e.reverbLength * Scale * e.playbackRate) * SampleRate)
    \div (Scale * e.playbackRate * LenDen)

\* Math.ceil((buffer.duration / playbackRate + reverbLength) * sampleRate)
outFrames(e) ==
    CeilDiv((e.buffer * RateDen * LenDen
               + e.reverbLength * Scale * e.playbackRate) * SampleRate,
            Scale * e.playbackRate * LenDen)

\* how the promise of renderWav() settles: kind "undefined" is resolved
\* with no value, kind "wav" is resolved with the WAV of an offline
\* rendering of the given shape.  No path of renderWav() rejects: `buffer`
\* is read only behind `if (!source) return`, and `source` is assigned only
\* by a play() that found a buffer.
NoResult == [kind |-> "undefined", channels |-> 0, frames |-> 0]

renderWav(e) ==
    IF e.source.st = "none" THEN NoResult
    ELSE [kind |-> "wav", channels |-> numberOfChannels(e),
          frames |-> outFrames(e)]

\* an ended handler that holds at the end of the track
onended_holdsAtEnd(e, now) == IF ~e.manualEnd THEN pause(e, now) ELSE e

\* s.onended, the handler every node is given
onended(e, now) == IF ~e.manualEnd THEN stop(e, now) ELSE e

\* the ended event of the engine's current source is taken off the queue
takeSource(e) == [e EXCEPT !.source = Done]

\* the ended event of an orphaned node n is taken off the queue
takeOrphan(e, n) == [e EXCEPT !.orphans = @ (-) SetToBag({n})]

\* ---------------------------------------------------------------- clock
\* One second of the audio clock: every playing node advances by its own
\* rate and ends, queueing its ended event, when it reaches the end of its
\* buffer.
advance(n) ==
    IF n.st # "playing" THEN n
    ELSE LET h == n.head + (Scale * n.rate) \div RateDen
         IN IF h >= n.dur
            THEN halted(n, "ended")
            ELSE [n EXCEPT !.head = h]

\* ---------------------------------------------------------------- history
\* The states of the engine's state machine.
State(e) ==
    IF e.buffer = 0 THEN "EMPTY"
    ELSE IF e.isPlaying THEN "PLAYING" ELSE "PAUSED"

\* a manual stop (pause, stop, seek, load) on a loaded engine marks every
\* node that is playing or whose ended event is still queued
mark(n) == IF Live(n) THEN [n EXCEPT !.touched = TRUE] ELSE n

touch(e0, e) ==
    IF e0.buffer = 0 THEN e
    ELSE [e EXCEPT !.source = IF Live(e0.source) THEN mark(@) ELSE @,
                   !.orphans = BagOfAll(mark, @)]

Did(op, arg) == last' = [op |-> op, was |-> State(Eng), arg |-> arg]

\* watch follows one call of the user:
\*   kind "pause": pause() was called and only the clock has moved since;
\*                 val is the position right after it
\*   kind "seek":  seek() was called while PLAYING, no call of the user has
\*                 followed and no node has played to its end; val is the
\*                 clamped target
\*   kind "load":  load() was called, no call of the user has followed and
\*                 no decode has been rejected; val is the file of that
\*                 call, the one issued last
NoWatch == [kind |-> "none", val |-> 0]

\* a step of the platform that is not the clock ends a "pause" watch
KeepSeekWatch == watch' = IF watch.kind = "pause" THEN NoWatch ELSE watch

\* some node plays to its end in this step
ReachesEnd ==
    \/ source'.st = "ended" /\ source # source'
    \/ \E n \in BagToSet(orphans) : n.st = "playing" /\ advance(n).st = "ended"

\* nodes the platform still has work for, and those of them that play
NumLive == BagCardinality(orphans) + (IF Live(source) THEN 1 ELSE 0)

Outstanding == Len(loads) + playsPending + NumLive

PlayingOrphans == {n \in BagToSet(orphans) : n.st = "playing"}

NumPlaying ==
    (IF source.st = "playing" THEN 1 ELSE 0)
    + BagCardinality([n \in PlayingOrphans |-> CopiesIn(n, orphans)])

\* ------------------------------------------------------ audioBufferToWav
\* A sample of a Float32Array: NaN, or the number num / SampleDen.
SampleDen == 4
Samples == [nan : BOOLEAN, num : -MaxSample .. MaxSample]

\* the factors 0x8000 and 0x7fff, and the 2^16 values of an Int16
NegFactor == 32768
PosFactor == 32767
Int16Values == 65536

\* the integer part of num / den, den > 0, as ToNumber-to-integer takes it
Truncate(num, den) ==
    IF num >= 0 THEN num \div den ELSE -((-num) \div den)

\* DataView.setInt16 of a whole number: modulo 2^16 into the Int16 range
ToInt16(x) == ((x + Int16Values \div 2) % Int16Values) - Int16Values \div 2

\* an encoder that scales the sample as it is
encodeSample_unclamped(s) ==
    IF s.nan THEN 0
    ELSE LET scaled == IF s.num < 0 THEN s.num * NegFactor
                       ELSE s.num * PosFactor
         IN ToInt16(Truncate(scaled, SampleDen))

\* the body of the inner loop: clamp to [-1, 1], scale by 0x8000 or 0x7fff,
\* setInt16.  NaN passes Math.min, Math.max and the product, and setInt16
\* stores it as 0.
encodeSample(s) ==
    IF s.nan THEN 0
    ELSE LET c == Max(-SampleDen, Min(SampleDen, s.num))
             scaled == IF c < 0 THEN c * NegFactor ELSE c * PosFactor
         IN ToInt16(Truncate(scaled, SampleDen))

\* samples that tell the channels and frames of a buffer apart
CoarseSamples == [nan : {FALSE}, num : {-SampleDen, 1, 3}]
\* sample rates of a buffer, in Hz
SampleRates == {8000, 44100}

\* the buffers handed to audioBufferToWav: one channel of any samples, or
\* several channels of coarse samples
Buffers ==
    UNION {[1 .. 1 -> [1 .. l -> Samples]] : l \in 1 .. MaxSamples}
    \cup UNION {[1 .. n -> [1 .. l -> CoarseSamples]] :
                  n \in 2 .. MaxChannels, l \in 1 .. MaxSamples}

\* abuf.numberOfChannels and abuf.length
numCh(p) == Len(p)
len(p) == Len(p[1])

\* DataView.setUint16 of a whole number: modulo 2^16
Uint16(x) == x % Int16Values

NoHeader == [riff |-> "", riffSize |-> 0, wave |-> "", fmt |-> "",
             fmtSize |-> 0, format |-> 0, channels |-> 0, sampleRate |-> 0,
             byteRate |-> 0, blockAlign |-> 0, bits |-> 0, data |-> "",
             dataSize |-> 0]

\* a header whose byte rate is that of one channel
wavHeader_monoByteRate(p, r) ==
    LET blockAlign == numCh(p) * 2
    IN [riff |-> "RIFF", riffSize |-> 36 + len(p) * blockAlign,
        wave |-> "WAVE", fmt |-> "fmt ", fmtSize |-> 16, format |-> 1,
        channels |-> Uint16(numCh(p)), sampleRate |-> r,
        byteRate |-> r * 2, blockAlign |-> Uint16(blockAlign),
        bits |-> 16, data |-> "data", dataSize |-> len(p) * blockAlign]

\* the thirteen fields written at offsets 0 to 40 (4+4+4+4+4+2+2+4+4+2+2+4+4
\* = 44 bytes), for the channels p and the sample rate r.  The 32-bit
\* fields are far below 2^32 for every buffer followed here and are kept
\* as they are.
wavHeader(p, r) ==
    LET blockAlign == numCh(p) * 2
    IN [riff |-> "RIFF", riffSize |-> 36 + len(p) * blockAlign,
        wave |-> "WAVE", fmt |-> "fmt ", fmtSize |-> 16, format |-> 1,
        channels |-> Uint16(numCh(p)), sampleRate |-> r,
        byteRate |-> r * blockAlign, blockAlign |-> Uint16(blockAlign),
        bits |-> 16, data |-> "data", dataSize |-> len(p) * blockAlign]

\* new ArrayBuffer(44 + len * blockAlign), the bytes of the Blob
blobSize(p) == 44 + len(p) * (numCh(p) * 2)

\* channels[ch][i] of the pass of the inner loop that follows k written
\* samples: i runs in the outer loop, ch in the inner one
nextSample(p, k) == p[(k % numCh(p)) + 1][(k \div numCh(p)) + 1]

\* --------------------------------------------------- makeImpulseResponse
\* seconds is given in units of 1/IrDen second
IrDen == 4
IrRates == 1 .. MaxIrRate
IrTails == -1 .. MaxIrTail

NoIr == [numberOfChannels |-> 0, length |-> 0]

\* ctx.createBuffer(2, Math.max(1, Math.floor(ctx.sampleRate * seconds)),
\* ctx.sampleRate); what the channels are filled with is not followed
makeImpulseResponse(sampleRate, seconds) ==
    [numberOfChannels |-> 2,
     length |-> Max(1, (sampleRate * seconds) \div IrDen)]

\* ------------------------------------------------------- Transport Mirror
\* src/src/audio/mediaSession.ts.  The mirror sits between the engine and
\* the platform's media session: it hands the session the engine's state
\* and forwards the session's commands to the engine.

\* what the host offers: no navigator.mediaSession at all, one without
\* setPositionState, or a full one
Platforms == {"none", "basic", "full"}

\* a value that may be missing: <<>> is undefined, <<v>> is v
Absent == <<>>
OrElse(v, d) == IF v = Absent THEN d ELSE v[1]

DEFAULTS == [positionSyncIntervalMs |-> 500, defaultSeekStep |-> 10]

\* the options a caller may pass: each field left out or given
MsOptions == {[positionSyncIntervalMs |-> Absent, defaultSeekStep |-> Absent],
              [positionSyncIntervalMs |-> <<250>>, defaultSeekStep |-> <<1>>]}

\* { ...DEFAULTS, ...options }
withDefaults(options) ==
    [positionSyncIntervalMs |->
         OrElse(options.positionSyncIntervalMs, DEFAULTS.positionSyncIntervalMs),
     defaultSeekStep |->
         OrElse(options.defaultSeekStep, DEFAULTS.defaultSeekStep)]

\* the details of a seek command: seekOffset (seconds) of seekbackward and
\* seekforward, seekTime (seconds) of seekto
SeekOffsets == {Absent, <<1>>}
SeekTimes == {Absent} \cup {<<t>> : t \in SeekTargets}

\* the actions the mirror installs a handler for; it sets previoustrack
\* and nexttrack to null when the options carry no callback for them, and
\* no options of MsOptions do
Commands ==
    {"play", "pause", "stop", "seekbackward", "seekforward", "seekto"}

\* the rate handed to the session lies in [1/MinRateInv, MaxRate]; it is
\* kept in units of 1/(RateDen * MinRateInv)
MinRateInv == 4
MaxRate == 4

NoPositionState == [duration |-> 0, position |-> 0, playbackRate |-> 0]

\* The mirror and the session:
\*   platform       what the host offers
\*   held           the function the caller still holds: the cleanup
\*                  returned by "register" or by "integrate", or "none"
\*   listening      the visibilitychange listener is installed
\*   handlers       the actions of the session that have a handler
\*   interval       the period of the polling interval in ms, 0 = no interval
\*   opts           the options the handlers were created with
\*   metadata       navigator.mediaSession.metadata has been set
\*   playbackState  navigator.mediaSession.playbackState
\*   positionState  the argument of the last setPositionState
NoMirror ==
    [platform |-> "none", held |-> "none", listening |-> FALSE,
     handlers |-> {}, interval |-> 0, opts |-> DEFAULTS,
     metadata |-> FALSE, playbackState |-> "none",
     positionState |-> NoPositionState]

supportsMediaSession(m) == m.platform # "none"

setMediaMetadata(m) ==
    IF ~supportsMediaSession(m) THEN m
    ELSE [m EXCEPT !.metadata = TRUE]

updatePlaybackState(m, e) ==
    IF ~supportsMediaSession(m) THEN m
    ELSE [m EXCEPT !.playbackState =
                       IF getIsPlaying(e) THEN "playing" ELSE "paused"]

\* the mirror's own clamp: Math.min(max, Math.max(min, n))
msClamp(n, lo, hi) == Min(hi, Max(lo, n))

sessionRate(e) ==
    msClamp(e.playbackRate * MinRateInv, RateDen, MaxRate * MinRateInv * RateDen)

updatePositionState_unclamped(m, e, now) ==
    IF m.platform # "full" THEN m
    ELSE IF getDuration(e) <= 0 THEN m
    ELSE [m EXCEPT !.positionState =
                       [duration |-> getDuration(e),
                        position |-> getPosition(e, now),
                        playbackRate |-> e.playbackRate * MinRateInv]]

updatePositionState(m, e, now) ==
    IF ~supportsMediaSession(m) \/ m.platform # "full" THEN m
    ELSE LET duration == getDuration(e)
         IN IF duration <= 0 THEN m
            ELSE [m EXCEPT !.positionState =
                      [duration |-> duration,
                       position |-> msClamp(getPosition(e, now), 0, duration),
                       playbackRate |-> sessionRate(e)]]

\* what the polling interval and the visibility listener do
republish(m, e, now) == updatePositionState(updatePlaybackState(m, e), e, now)

setActionHandler(m, actions, on) ==
    IF ~supportsMediaSession(m) THEN m
    ELSE [m EXCEPT !.handlers = IF on THEN @ \cup actions ELSE @ \ actions]

\* the function registerMediaSessionHandlers returns
cleanup(m) ==
    IF ~supportsMediaSession(m) THEN m
    ELSE [setActionHandler(m, Commands, FALSE)
             EXCEPT !.interval = 0, !.opts = DEFAULTS]

registerMediaSessionHandlers_unguarded(m, e, now, options) ==
    LET opts == withDefaults(options)
        m1 == republish(setMediaMetadata(m), e, now)
    IN [setActionHandler(m1, Commands, TRUE)
           EXCEPT !.opts = opts,
                  !.interval = opts.positionSyncIntervalMs]

registerMediaSessionHandlers(m, e, now, options) ==
    IF ~supportsMediaSession(m) THEN m
    ELSE LET opts == withDefaults(options)
             m1 == republish(setMediaMetadata(m), e, now)
         IN [setActionHandler(m1, Commands, TRUE)
                EXCEPT !.opts = opts,
                       !.interval = opts.positionSyncIntervalMs]

integrateWithOSMedia(m, e, now, options) ==
    [registerMediaSessionHandlers(m, e, now, options)
        EXCEPT !.listening = TRUE]

\* the function integrateWithOSMedia returns
integrateCleanup(m) == [cleanup(m) EXCEPT !.listening = FALSE]

\* the visibilitychange listener
onVis(m, e, now, hidden) == IF hidden THEN m ELSE republish(m, e, now)

\* The handlers of the session's actions.  Each gives the engine and the
\* mirror as it leaves them.  The "play" handler first awaits
\* ensureAudioContext(), which finds no Engine.ctx (the namespace does not
\* export it) and returns at once, so the handler runs on in the same turn
\* of the event loop; it does not await Engine.play().
onPlay(m, e, now) ==
    LET e1 == playCall(e)
    IN [eng |-> e1, ms |-> republish(m, e1, now)]

onPause(m, e, now) ==
    LET e1 == pause(e, now)
    IN [eng |-> e1, ms |-> republish(m, e1, now)]

onStop(m, e, now) ==
    LET e1 == stop(e, now)
    IN [eng |-> e1, ms |-> republish(m, e1, now)]

seekStep_fixed(m, details) == DEFAULTS.defaultSeekStep * Scale

\* details.seekOffset ?? opts.defaultSeekStep, in units
seekStep(m, details) ==
    OrElse(details.seekOffset, m.opts.defaultSeekStep) * Scale

onSeekBackward(m, e, now, details) ==
    LET e1 == seek(e, now, getPosition(e, now) - seekStep(m, details))
    IN [eng |-> e1, ms |-> updatePositionState(m, e1, now)]

onSeekForward(m, e, now, details) ==
    LET e1 == seek(e, now, getPosition(e, now) + seekStep(m, details))
    IN [eng |-> e1, ms |-> updatePositionState(m, e1, now)]

onSeekTo(m, e, now, details) ==
    IF details.seekTime = Absent THEN [eng |-> e, ms |-> m]
    ELSE LET e1 == seek(e, now, details.seekTime[1] * Scale)
         IN [eng |-> e1, ms |-> updatePositionState(m, e1, now)]

\* playback rates outside [1/MinRateInv, MaxRate] as well: 0 and 8.0
MsRates == Rates \cup {0, 2 * MaxRate * RateDen}


\* ---------------------------------------------------------------- actions
IrIdle == irArgs = [sampleRate |-> 0, seconds |-> 0] /\ ir = NoIr

MsIdle == ms = NoMirror

EncIdle ==
    pcm = <<>> /\ sr = 0 /\ hdr = NoHeader /\ wav = <<>> /\ blob = 0

Init ==
    /\ EncIdle
    /\ IrIdle
    /\ MsIdle
    /\ buffer = 0
    /\ pausedAt = 0
    /\ startedAt = 0
    /\ isPlaying = FALSE
    /\ playbackRate = RateDen
    /\ reverbVolume = 0
    /\ reverbLength = 0
    /\ source = NoNode
    /\ manualEnd = FALSE
    /\ orphans = EmptyBag
    /\ clock = 0
    /\ ctxRunning = FALSE
    /\ playsPending = 0
    /\ loads = <<>>
    /\ rateChanges = 0
    /\ last = [op |-> "init", was |-> "EMPTY", arg |-> 0]
    /\ watch = NoWatch

Load ==
    /\ Outstanding < MaxOutstanding
    /\ \E f \in Files :
          /\ SetEng(touch(Eng, loadCall(Eng, clock, f)))
          /\ Did("load", f)
          /\ watch' = [kind |-> "load", val |-> f]
    /\ UNCHANGED <<msVars, irVars, encVars, clock, ctxRunning, rateChanges>>

LoadDone ==
    /\ \E i \in 1..Len(loads) :
          /\ SetEng(loadDone(Eng, i))
          /\ Did("loadDone", i)
    /\ KeepSeekWatch
    /\ UNCHANGED <<msVars, irVars, encVars, clock, ctxRunning, rateChanges>>

LoadFail ==
    /\ \E i \in 1..Len(loads) :
          /\ SetEng(loadFail(Eng, i))
          /\ Did("loadFail", i)
    /\ watch' = IF watch.kind = "seek" THEN watch ELSE NoWatch
    /\ UNCHANGED <<msVars, irVars, encVars, clock, ctxRunning, rateChanges>>

Play ==
    /\ Outstanding < MaxOutstanding
    /\ SetEng(playCall(Eng))
    /\ Did("play", 0)
    /\ watch' = NoWatch
    /\ UNCHANGED <<msVars, irVars, encVars, clock, ctxRunning, rateChanges>>

\* ctx.resume() resolves: the clock runs and a suspended play() continues
PlayResume ==
    /\ playsPending > 0
    /\ SetEng(playResume(Eng, clock))
    /\ ctxRunning' = TRUE
    /\ Did("playResume", 0)
    /\ watch' = IF watch.kind = "pause" \/ ReachesEnd
                THEN NoWatch ELSE watch
    /\ UNCHANGED <<msVars, irVars, encVars, clock, rateChanges>>

\* ctx.resume() is refused by the platform: play() ends at the await
PlayBlocked ==
    /\ playsPending > 0
    /\ ~ctxRunning
    /\ SetEng(playBlocked(Eng))
    /\ Did("playBlocked", 0)
    /\ KeepSeekWatch
    /\ UNCHANGED <<msVars, irVars, encVars, clock, ctxRunning, rateChanges>>

Pause ==
    /\ SetEng(touch(Eng, pause(Eng, clock)))
    /\ Did("pause", 0)
    /\ watch' = IF buffer = 0 THEN NoWatch
                ELSE [kind |-> "pause",
                      val |-> getPosition(pause(Eng, clock), clock)]
    /\ UNCHANGED <<msVars, irVars, encVars, clock, ctxRunning, rateChanges>>

Stop ==
    /\ SetEng(touch(Eng, stop(Eng, clock)))
    /\ Did("stop", 0)
    /\ watch' = NoWatch
    /\ UNCHANGED <<msVars, irVars, encVars, clock, ctxRunning, rateChanges>>

Seek ==
    /\ isPlaying => Outstanding < MaxOutstanding
    /\ \E t \in SeekTargets :
          /\ SetEng(touch(Eng, seek(Eng, clock, t * Scale)))
          /\ Did("seek", t)
          /\ watch' = IF State(Eng) = "PLAYING"
                      THEN [kind |-> "seek", val |-> clamp(t * Scale, 0, buffer)]
                      ELSE NoWatch
    /\ UNCHANGED <<msVars, irVars, encVars, clock, ctxRunning, rateChanges>>

SetPlaybackRate ==
    /\ rateChanges < MaxRateChanges
    /\ \E r \in Rates \ {playbackRate} :
          /\ SetEng(setPlaybackRate(Eng, r))
          /\ Did("setPlaybackRate", r)
    /\ rateChanges' = rateChanges + 1
    /\ watch' = NoWatch
    /\ UNCHANGED <<msVars, irVars, encVars, clock, ctxRunning>>

SetReverbVolume ==
    /\ \E v \in ReverbVolumes \ {reverbVolume} :
          /\ SetEng(setReverbVolume(Eng, v))
          /\ Did("setReverbVolume", v)
    /\ watch' = NoWatch
    /\ UNCHANGED <<msVars, irVars, encVars, clock, ctxRunning, rateChanges>>

SetReverbLength ==
    /\ \E l \in ReverbLengths \ {reverbLength} :
          /\ SetEng(setReverbLength(Eng, l))
          /\ Did("setReverbLength", l)
    /\ watch' = NoWatch
    /\ UNCHANGED <<msVars, irVars, encVars, clock, ctxRunning, rateChanges>>

\* renderWav() is called; what it will resolve to is fixed by what it reads
\* before it suspends at the offline rendering
RenderWav ==
    /\ Did("renderWav", renderWav(Eng))
    /\ watch' = NoWatch
    /\ UNCHANGED <<msVars, irVars, encVars, engineVars, clock, ctxRunning,
                   rateChanges>>

\* the ended event of a node is delivered
Ended ==
    /\ \/ /\ source.evt
          /\ SetEng(onended(takeSource(Eng), clock))
          /\ Did("ended", 1)
       \/ \E n \in BagToSet(orphans) :
             /\ n.evt
             /\ SetEng(onended(takeOrphan(Eng, n), clock))
             /\ Did("ended", 2)
    /\ KeepSeekWatch
    /\ UNCHANGED <<msVars, irVars, encVars, clock, ctxRunning, rateChanges>>

Tick ==
    /\ ctxRunning
    /\ clock < MaxTime * Scale
    /\ clock' = clock + Scale
    /\ source' = advance(source)
    /\ orphans' = BagOfAll(advance, orphans)
    /\ Did("tick", 0)
    /\ watch' = IF ReachesEnd THEN NoWatch ELSE watch
    /\ UNCHANGED <<msVars, irVars, encVars,
                   buffer, pausedAt, startedAt, isPlaying, playbackRate,
                   reverbVolume, reverbLength, manualEnd, ctxRunning,
                   playsPending, loads, rateChanges>>

Next ==
    \/ Load
    \/ LoadDone
    \/ LoadFail
    \/ Play
    \/ PlayResume
    \/ PlayBlocked
    \/ Pause
    \/ Stop
    \/ Seek
    \/ SetPlaybackRate
    \/ Ended
    \/ Tick

\* The transport of the engine.
Spec == Init /\ [][Next]_vars

\* The engine with its reverb parameters and renderWav(), the transport
\* followed within FxTime and FxOutstanding.
FxWithin == clock <= FxTime * Scale /\ Outstanding <= FxOutstanding

FxNext ==
    \/ Load /\ FxWithin'
    \/ LoadDone /\ FxWithin'
    \/ LoadFail /\ FxWithin'
    \/ Play /\ FxWithin'
    \/ PlayResume /\ FxWithin'
    \/ PlayBlocked /\ FxWithin'
    \/ Pause /\ FxWithin'
    \/ Stop /\ FxWithin'
    \/ Seek /\ FxWithin'
    \/ SetPlaybackRate /\ FxWithin'
    \/ Ended /\ FxWithin'
    \/ Tick /\ FxWithin'
    \/ SetReverbVolume
    \/ SetReverbLength
    \/ RenderWav

FxSpec == Init /\ [][FxNext]_vars

\* audioBufferToWav on its own: it is given any buffer of Buffers, writes
\* the header, then the samples one after the other, and returns the Blob.
EngineIdle ==
    /\ buffer = 0 /\ pausedAt = 0 /\ startedAt = 0 /\ isPlaying = FALSE
    /\ playbackRate = RateDen /\ reverbVolume = 0 /\ reverbLength = 0
    /\ source = NoNode /\ manualEnd = FALSE /\ orphans = EmptyBag
    /\ clock = 0 /\ ctxRunning = FALSE /\ playsPending = 0
    /\ loads = <<>> /\ rateChanges = 0
    /\ last = [op |-> "init", was |-> "EMPTY", arg |-> 0]
    /\ watch = NoWatch

EncInit ==
    /\ EngineIdle
    /\ IrIdle
    /\ MsIdle
    /\ pcm \in Buffers
    /\ sr \in SampleRates
    /\ hdr = NoHeader /\ wav = <<>> /\ blob = 0

WriteHeader ==
    /\ hdr = NoHeader
    /\ hdr' = wavHeader(pcm, sr)
    /\ UNCHANGED <<msVars, pcm, sr, wav, blob, irVars, engineVars, clock,
                   ctxRunning, rateChanges, last, watch>>

WriteSample ==
    /\ hdr # NoHeader
    /\ Len(wav) < len(pcm) * numCh(pcm)
    /\ wav' = Append(wav, encodeSample(nextSample(pcm, Len(wav))))
    /\ UNCHANGED <<msVars, pcm, sr, hdr, blob, irVars, engineVars, clock,
                   ctxRunning, rateChanges, last, watch>>

ReturnBlob ==
    /\ hdr # NoHeader
    /\ Len(wav) = len(pcm) * numCh(pcm)
    /\ blob = 0
    /\ blob' = blobSize(pcm)
    /\ UNCHANGED <<msVars, pcm, sr, hdr, wav, irVars, engineVars, clock,
                   ctxRunning, rateChanges, last, watch>>

EncNext ==
    \/ WriteHeader
    \/ WriteSample
    \/ ReturnBlob

EncSpec == EncInit /\ [][EncNext]_vars

\* makeImpulseResponse on its own, for every sample rate of IrRates and
\* tail length of IrTails.
IrInit ==
    /\ EngineIdle
    /\ EncIdle
    /\ MsIdle
    /\ irArgs \in [sampleRate : IrRates, seconds : IrTails]
    /\ ir = NoIr

MakeImpulseResponse ==
    /\ ir = NoIr
    /\ ir' = makeImpulseResponse(irArgs.sampleRate, irArgs.seconds)
    /\ UNCHANGED <<msVars, irArgs, encVars, engineVars, clock, ctxRunning,
                   rateChanges, last, watch>>

IrNext == MakeImpulseResponse

IrSpec == IrInit /\ [][IrNext]_vars

\* The Transport Mirror on top of the engine.  The host is any of
\* Platforms.  The caller registers the mirror with either entry point,
\* holds one registration at a time and may clean it up; the platform
\* delivers the session's actions to the handlers installed, fires the
\* polling interval and the visibility listener; the application also calls
\* the mirror's update functions itself.  Of the engine's own operations
\* the application calls load(), play() and setPlaybackRate(); pause, stop
\* and seek reach the engine through the session's actions.  The transport is
\* followed within MsTime and MsOutstanding, and at the rates of Rates only:
\* at any other rate the engine is followed while it does not play.
MsInit ==
    /\ EngineIdle
    /\ EncIdle
    /\ IrIdle
    /\ ms \in {[NoMirror EXCEPT !.platform = p] : p \in Platforms}

MsWithin ==
    /\ clock <= MsTime * Scale
    /\ Outstanding <= MsOutstanding
    /\ playbackRate \notin Rates => ~isPlaying /\ playsPending = 0

MsQuiet == UNCHANGED <<irVars, encVars, engineVars, clock, ctxRunning,
                       rateChanges, watch>>

RegisterMediaSessionHandlers ==
    /\ ms.held = "none"
    /\ \E o \in MsOptions :
          /\ ms' = [registerMediaSessionHandlers(ms, Eng, clock, o)
                       EXCEPT !.held = "register"]
          /\ Did("registerMediaSessionHandlers", o)
    /\ MsQuiet

IntegrateWithOSMedia ==
    /\ ms.held = "none"
    /\ \E o \in MsOptions :
          /\ ms' = [integrateWithOSMedia(ms, Eng, clock, o)
                       EXCEPT !.held = "integrate"]
          /\ Did("integrateWithOSMedia", o)
    /\ MsQuiet

\* the caller calls the function it holds
Cleanup ==
    /\ ms.held # "none"
    /\ ms' = [(IF ms.held = "integrate"
               THEN integrateCleanup(ms) ELSE cleanup(ms))
                 EXCEPT !.held = "none"]
    /\ Did("cleanup", 0)
    /\ MsQuiet

SetMediaMetadata ==
    /\ ms' = setMediaMetadata(ms)
    /\ Did("setMediaMetadata", 0)
    /\ MsQuiet

UpdatePlaybackState ==
    /\ ms' = updatePlaybackState(ms, Eng)
    /\ Did("updatePlaybackState", 0)
    /\ MsQuiet

UpdatePositionState ==
    /\ ms' = updatePositionState(ms, Eng, clock)
    /\ Did("updatePositionState", 0)
    /\ MsQuiet

\* the polling interval fires
Poll ==
    /\ ms.interval # 0
    /\ ms' = republish(ms, Eng, clock)
    /\ Did("poll", ms.interval)
    /\ MsQuiet

\* the document becomes hidden or visible
VisibilityChange ==
    /\ ms.listening
    /\ \E hidden \in BOOLEAN :
          /\ ms' = onVis(ms, Eng, clock, hidden)
          /\ Did("visibilitychange", hidden)
    /\ MsQuiet

\* the platform delivers an action of the session to its handler
Handled(op, details, h) ==
    /\ SetEng(touch(Eng, h.eng))
    /\ ms' = h.ms
    /\ Did(op, details)
    /\ watch' = NoWatch
    /\ UNCHANGED <<irVars, encVars, clock, ctxRunning, rateChanges>>

OsPlay ==
    /\ "play" \in ms.handlers
    /\ Outstanding < MaxOutstanding
    /\ SetEng(onPlay(ms, Eng, clock).eng)
    /\ ms' = onPlay(ms, Eng, clock).ms
    /\ Did("os.play", 0)
    /\ watch' = NoWatch
    /\ UNCHANGED <<irVars, encVars, clock, ctxRunning, rateChanges>>

OsPause ==
    /\ "pause" \in ms.handlers
    /\ Handled("os.pause", 0, onPause(ms, Eng, clock))

OsStop ==
    /\ "stop" \in ms.handlers
    /\ Handled("os.stop", 0, onStop(ms, Eng, clock))

OsSeekBackward ==
    /\ "seekbackward" \in ms.handlers
    /\ isPlaying => Outstanding < MaxOutstanding
    /\ \E d \in [seekOffset : SeekOffsets] :
          Handled("os.seekbackward", d, onSeekBackward(ms, Eng, clock, d))

OsSeekForward ==
    /\ "seekforward" \in ms.handlers
    /\ isPlaying => Outstanding < MaxOutstanding
    /\ \E d \in [seekOffset : SeekOffsets] :
          Handled("os.seekforward", d, onSeekForward(ms, Eng, clock, d))

\* a seekto without a seekTime never reaches the engine
OsSeekTo ==
    /\ "seekto" \in ms.handlers
    /\ isPlaying => Outstanding < MaxOutstanding
    /\ \E d \in [seekTime : SeekTimes] :
          IF d.seekTime = Absent
          THEN /\ SetEng(onSeekTo(ms, Eng, clock, d).eng)
               /\ ms' = onSeekTo(ms, Eng, clock, d).ms
               /\ Did("os.seekto", d)
               /\ UNCHANGED <<irVars, encVars, clock, ctxRunning,
                              rateChanges, watch>>
          ELSE Handled("os.seekto", d, onSeekTo(ms, Eng, clock, d))

\* setPlaybackRate with any rate of MsRates
SetAnyPlaybackRate ==
    /\ rateChanges < MaxRateChanges
    /\ \E r \in MsRates \ {playbackRate} :
          /\ SetEng(setPlaybackRate(Eng, r))
          /\ Did("setPlaybackRate", r)
    /\ rateChanges' = rateChanges + 1
    /\ watch' = NoWatch
    /\ UNCHANGED <<msVars, irVars, encVars, clock, ctxRunning>>

MsNext ==
    \/ Load /\ MsWithin'
    \/ LoadDone /\ MsWithin'
    \/ Play /\ MsWithin'
    \/ PlayResume /\ MsWithin'
    \/ SetAnyPlaybackRate /\ MsWithin'
    \/ Ended /\ MsWithin'
    \/ Tick /\ MsWithin'
    \/ RegisterMediaSessionHandlers
    \/ IntegrateWithOSMedia
    \/ Cleanup
    \/ SetMediaMetadata
    \/ UpdatePlaybackState
    \/ UpdatePositionState
    \/ Poll
    \/ VisibilityChange
    \/ OsPlay /\ MsWithin'
    \/ OsPause /\ MsWithin'
    \/ OsStop /\ MsWithin'
    \/ OsSeekBackward /\ MsWithin'
    \/ OsSeekForward /\ MsWithin'
    \/ OsSeekTo /\ MsWithin'

MsSpec == MsInit /\ [][MsNext]_vars

\* ---------------------------------------------------------------- claims
\* what a caller observes now
Pos == getPosition(Eng, clock)

\* C1: whenever a load() completes successfully the engine is PAUSED at
\* position 0, whatever was called while the decode was pending.
C1_LoadCompletesPausedAtZero ==
    last.op = "loadDone" => (~getIsPlaying(Eng) /\ Pos = 0)

\* C2: in every reachable state getPosition() lies in [0, getDuration()].
C2_PositionWithinDuration == 0 <= Pos /\ Pos <= getDuration(Eng)

\* C3: play() called on a PLAYING or EMPTY engine changes nothing; a play()
\* that continues on a PAUSED engine starts one source at the paused-at
\* offset, sets startedAt = now - pausedAt / rate, and leaves the engine
\* PLAYING at the former paused-at position.
C3_PlayStartsAtPausedAt ==
    [][ /\ (last'.op = "play" /\ State(Eng) \in {"PLAYING", "EMPTY"})
            => UNCHANGED engineVars
        /\ (last'.op = "playResume" /\ State(Eng) = "PAUSED")
            => /\ source' # source
               /\ source'.st \in {"playing", "ended"}
               /\ source'.st = "playing" => source'.head = pausedAt
               /\ NumLive' <= NumLive + 1
               /\ startedAt' = clock - (pausedAt * RateDen) \div playbackRate
               /\ isPlaying'
               /\ Pos' = pausedAt ]_vars

\* C4: at every moment at most one started, not yet stopped source exists,
\* and after pause() or stop() on a loaded engine none is running.
C4_SingleRunningSource ==
    /\ NumPlaying <= 1
    /\ (last.op \in {"pause", "stop"} /\ buffer # 0) => NumPlaying = 0

\* C5: pause() on a PLAYING engine stores
\* pausedAt = clamp((now - startedAt) * rate, 0, duration), stops the
\* engine's source and leaves the engine PAUSED at the position it had just
\* before; pause() on an EMPTY engine changes nothing.
C5_PauseFreezesPosition ==
    [][ last'.op = "pause" =>
          /\ State(Eng) = "PLAYING" =>
                /\ pausedAt' = clamp(((clock - startedAt) * playbackRate)
                                        \div RateDen, 0, buffer)
                /\ source'.st # "playing"
                /\ ~isPlaying'
                /\ buffer' = buffer
                /\ Pos' = Pos
          /\ State(Eng) = "EMPTY" => UNCHANGED engineVars ]_vars

C5_Witness ==
    /\ last.op = "pause" /\ last.was = "PLAYING"
    /\ ~isPlaying /\ source.st = "stopped"
    /\ 0 < pausedAt /\ pausedAt < buffer

\* C6: a second pause() that follows a pause() with only clock time between
\* them leaves getPosition() where the first pause() left it.
C6_PauseIdempotent ==
    [][ (last'.op = "pause" /\ watch.kind = "pause") => Pos' = watch.val ]_vars

\* C7: seek(p) on a PAUSED engine leaves the engine PAUSED with
\* getPosition() = clamp(p, 0, duration), for every target p.
C7_SeekPausedIsExact ==
    [][ (last'.op = "seek" /\ State(Eng) = "PAUSED") =>
          /\ Pos' = clamp(last'.arg * Scale, 0, buffer)
          /\ ~isPlaying'
          /\ buffer' = buffer ]_vars

C7_Witness ==
    /\ last.op = "seek" /\ last.was = "PAUSED" /\ last.arg = 2
    /\ buffer = 1 * Scale /\ Pos = buffer /\ ~isPlaying

\* C8: after seek(t) on a PLAYING engine, with no further call of the user
\* and before the track has played to its end, the engine is PLAYING again
\* once the play() the seek issued has continued.
C8_SeekWhilePlayingResumes ==
    (watch.kind = "seek" /\ playsPending = 0) => isPlaying

\* C9: stop() leaves the engine as pause() does, with paused-at forced to 0:
\* after stop() on a loaded engine getIsPlaying() is false and getPosition()
\* is 0.
C9_StopIsPauseThenRewind ==
    [][ last'.op = "stop" =>
          /\ pausedAt' = 0
          /\ <<buffer', startedAt', isPlaying', playbackRate', manualEnd',
               playsPending', loads', source'.st>>
             = LET p == pause(Eng, clock)
               IN <<p.buffer, p.startedAt, p.isPlaying, p.playbackRate,
                    p.manualEnd, p.playsPending, p.loads, p.source.st>>
          /\ buffer # 0 => (~isPlaying' /\ Pos' = 0) ]_vars

C9_Witness ==
    /\ last.op = "stop" /\ last.was = "PLAYING"
    /\ ~isPlaying /\ Pos = 0 /\ source.st = "stopped"
    /\ clock > startedAt

\* C10: when the ended event of the engine's source is delivered, the source
\* having played to its end with no pause, stop, seek or load since it was
\* started, the engine is PAUSED at position 0 afterwards.
C10_NaturalEndRewinds ==
    [][ (last'.op = "ended" /\ last'.arg = 1
         /\ source.st = "ended" /\ ~source.touched)
        => (~isPlaying' /\ Pos' = 0) ]_vars

C10_Witness ==
    /\ last.op = "ended" /\ last.arg = 1 /\ last.was = "PLAYING"
    /\ source.st = "done"
    /\ ~isPlaying /\ Pos = 0 /\ clock - startedAt >= buffer

\* C11: over every step that begins and ends PLAYING at the same rate and is
\* no seek, pause, stop or load (nor the completion of a load),
\* getPosition() does not decrease and, where it is not clamped at the
\* duration, grows by rate * (clock time passed).
C11_PositionFollowsClock ==
    [][ ( /\ State(Eng) = "PLAYING"
          /\ isPlaying' /\ buffer' = buffer
          /\ playbackRate' = playbackRate
          /\ last'.op \notin {"seek", "pause", "stop", "load", "loadDone"} )
        => /\ Pos' >= Pos
           /\ Pos' < buffer
                => Pos' - Pos = ((clock' - clock) * playbackRate) \div RateDen
      ]_vars

\* C12: play(), pause(), stop() and seek() on an EMPTY engine change nothing:
\* the engine stays EMPTY, getIsPlaying() is false, getPosition() and
\* getDuration() stay 0, and nothing is left suspended or started.
C12_EmptyEngineNoOps ==
    [][ (last'.op \in {"play", "pause", "stop", "seek"} /\ State(Eng) = "EMPTY")
        => /\ UNCHANGED engineVars
           /\ State(Eng)' = "EMPTY"
           /\ ~getIsPlaying(Eng)'
           /\ Pos' = 0
           /\ getDuration(Eng)' = 0 ]_vars

C12_Witness ==
    /\ last.op = "seek" /\ last.was = "EMPTY" /\ last.arg = 2
    /\ buffer = 0 /\ Len(loads) = 1 /\ playsPending = 0 /\ source = NoNode

\* C13: when ctx.resume() is refused for a play() called on a PAUSED engine,
\* the engine remains PAUSED: getIsPlaying() is false, no source has been
\* created or started, and paused-at (and so getPosition()) is unchanged.
C13_BlockedPlayStaysPaused ==
    [][ (last'.op = "playBlocked" /\ State(Eng) = "PAUSED")
        => /\ State(Eng)' = "PAUSED"
           /\ ~getIsPlaying(Eng)'
           /\ source' = source /\ orphans' = orphans
           /\ NumPlaying' = 0
           /\ pausedAt' = pausedAt
           /\ Pos' = Pos ]_vars

C13_Witness ==
    /\ last.op = "playBlocked" /\ last.was = "PAUSED"
    /\ ~isPlaying /\ source = NoNode /\ playsPending = 0
    /\ pausedAt = 1 * Scale /\ buffer = 2 * Scale

\* C14: a load() whose decode is rejected leaves the loaded signal as it
\* was: getDuration() is unchanged, the signal play() and renderWav() would
\* use is the one loaded before, and on an EMPTY engine the engine stays
\* EMPTY.
C14_FailedLoadKeepsSignal ==
    [][ last'.op = "loadFail"
        => /\ buffer' = buffer
           /\ getDuration(Eng)' = getDuration(Eng)
           /\ State(Eng) = "EMPTY" => State(Eng)' = "EMPTY"
           /\ State(Eng) # "EMPTY" => State(Eng)' # "EMPTY" ]_vars

C14_Witness ==
    /\ last.op = "loadFail" /\ last.was = "PAUSED"
    /\ buffer = 2 * Scale /\ getDuration(Eng) = 2 * Scale /\ loads = <<>>

\* C15: with a signal loaded, renderWav() resolves with an encoded result in
\* every transport situation, also when play() has never been called since
\* construction and when the engine is PAUSED.
C15_RenderIgnoresTransport ==
    (last.op = "renderWav" /\ buffer # 0) => last.arg.kind = "wav"

\* C16: renderWav() called while no signal is loaded settles as a failure the
\* caller observes: it neither resolves with a result nor resolves with no
\* value.
C16_RenderWithoutSignalFails ==
    (last.op = "renderWav" /\ buffer = 0) => last.arg.kind = "error"

\* C18: setReverbLength() on a PLAYING engine stores the new tail and leaves
\* getPlaybackRate() and getReverbVolume() as they were; playback goes on:
\* getIsPlaying() stays true, startedAt and the active source are untouched.
C18_ReverbLengthKeepsPlayback ==
    [][ (last'.op = "setReverbLength" /\ State(Eng) = "PLAYING")
        => /\ reverbLength' = last'.arg
           /\ playbackRate' = playbackRate
           /\ reverbVolume' = reverbVolume
           /\ getIsPlaying(Eng)'
           /\ startedAt' = startedAt
           /\ source' = source /\ orphans' = orphans
           /\ Pos' = Pos ]_vars

C18_Witness ==
    /\ last.op = "setReverbLength" /\ last.was = "PLAYING" /\ last.arg = 1
    /\ reverbLength = 1 /\ reverbVolume = 1 /\ playbackRate = 1
    /\ isPlaying /\ source.st = "playing" /\ source.head > 0

\* C19: a result of renderWav() has the channel count of the loaded signal
\* and ceil((duration / rate + tail) * sampleRate) frames, rate and tail read
\* at the call: the frame count is the least whole number of frames that
\* covers (duration / rate + tail) seconds.
C19_RenderOutputShape ==
    (last.op = "renderWav" /\ last.arg.kind = "wav") =>
        LET num == (buffer * RateDen * LenDen
                      + reverbLength * Scale * playbackRate) * SampleRate
            den == Scale * playbackRate * LenDen
            n == last.arg.frames
        IN /\ last.arg.channels = numberOfChannels(Eng)
           /\ n * den >= num
           /\ (n - 1) * den < num

\* a 2 s stereo signal at rate 0.5 with a tail of 0.5 s: 4.5 s, 14 frames
C19_Witness ==
    /\ last.op = "renderWav" /\ last.arg.kind = "wav"
    /\ buffer = 2 * Scale /\ playbackRate = 1 /\ reverbLength = 1
    /\ last.arg.channels = 2 /\ last.arg.frames = 14

\* C17: when load() calls overlap and all of them have completed, with no
\* other call of the user since the last of them was issued, the loaded
\* signal is the one of the call issued last, in whatever order the decodes
\* finished.
C17_LastIssuedLoadWins ==
    (watch.kind = "load" /\ last.op = "loadDone" /\ loads = <<>>)
        => buffer = watch.val * Scale

\* C20: every value audioBufferToWav writes lies in [-32768, 32767] and has
\* not wrapped: a sample >= 1 is written as 32767, a sample <= -1 as -32768,
\* and a written value never has the opposite sign of its sample.
C20_EncoderSaturates ==
    \A i \in 1 .. Len(wav) :
        LET s == nextSample(pcm, i - 1)
        IN /\ wav[i] \in -NegFactor .. PosFactor
           /\ ~s.nan =>
                 /\ s.num >= SampleDen => wav[i] = PosFactor
                 /\ s.num <= -SampleDen => wav[i] = -NegFactor
                 /\ s.num >= 0 => wav[i] >= 0
                 /\ s.num <= 0 => wav[i] <= 0

\* the samples 1.5 and -1.25 have been written
C20_Witness ==
    /\ Len(wav) = 2
    /\ ~pcm[1][1].nan /\ pcm[1][1].num = 6 /\ wav[1] = PosFactor
    /\ ~pcm[1][2].nan /\ pcm[1][2].num = -5 /\ wav[2] = -NegFactor

\* C21: for a buffer of N channels, sample rate R and L frames the Blob
\* audioBufferToWav returns has 44 + L*N*2 bytes: the header with format
\* tag 1, channel count N, sample rate R, byte rate R*N*2, block alignment
\* N*2, bit depth 16, RIFF size 36 + L*N*2 and data size L*N*2, then the
\* L*N samples, frame by frame and within a frame in channel order.
C21_WavLayout ==
    blob # 0 =>
        LET N == Len(pcm)
            L == Len(pcm[1])
        IN /\ blob = 44 + L * N * 2
           /\ blob = 44 + 2 * Len(wav)
           /\ hdr.riff = "RIFF" /\ hdr.wave = "WAVE"
           /\ hdr.fmt = "fmt " /\ hdr.data = "data"
           /\ hdr.fmtSize = 16
           /\ hdr.format = 1
           /\ hdr.channels = N
           /\ hdr.sampleRate = sr
           /\ hdr.byteRate = sr * N * 2
           /\ hdr.blockAlign = N * 2
           /\ hdr.bits = 16
           /\ hdr.riffSize = 36 + L * N * 2
           /\ hdr.dataSize = L * N * 2
           /\ \A i \in 1 .. L : \A ch \in 1 .. N :
                 wav[(i - 1) * N + ch] = encodeSample(pcm[ch][i])

\* two channels of two frames, all four samples different
C21_Witness ==
    /\ blob = 52 /\ Len(pcm) = 2 /\ Len(pcm[1]) = 2 /\ sr = 44100
    /\ pcm[1][1].num = -SampleDen /\ pcm[2][1].num = 1
    /\ pcm[1][2].num = 3 /\ pcm[2][2].num = -SampleDen
    /\ wav = <<-NegFactor, 8191, 24575, -NegFactor>>

\* C22: makeImpulseResponse returns a buffer of two channels whose length is
\* round(sampleRate * seconds), and 1 where that is less than 1, for every
\* sample rate and tail length.
C22_ImpulseLengthRounded ==
    ir # NoIr =>
        /\ ir.numberOfChannels = 2
        /\ ir.length = Max(1, (2 * irArgs.sampleRate * irArgs.seconds + IrDen)
                                 \div (2 * IrDen))

\* C25: load() called on a PLAYING engine stops the source and leaves the
\* engine PAUSED at position 0 at once, before the decode settles; a decode
\* that is then rejected restores nothing: it leaves isPlaying, the position
\* and the source as it finds them.
C25_LoadStopsAtCall ==
    [][ /\ (last'.op = "load" /\ State(Eng) = "PLAYING")
            => /\ State(Eng)' = "PAUSED"
               /\ ~getIsPlaying(Eng)'
               /\ Pos' = 0
               /\ source'.st # "playing"
               /\ Len(loads') = Len(loads) + 1
        /\ last'.op = "loadFail"
            => /\ isPlaying' = isPlaying
               /\ pausedAt' = pausedAt /\ startedAt' = startedAt
               /\ source' = source
               /\ Pos' = Pos ]_vars

C25_Witness ==
    /\ last.op = "load" /\ last.was = "PLAYING"
    /\ ~isPlaying /\ Pos = 0 /\ source.st = "stopped"
    /\ Len(loads) = 1 /\ clock > startedAt

\* C26: setPlaybackRate() on a PLAYING engine leaves getPosition() where it
\* was just before the call.
C26_RateChangeKeepsPosition ==
    [][ (last'.op = "setPlaybackRate" /\ State(Eng) = "PLAYING")
        => Pos' = Pos ]_vars

\* C27: the ended event of a node that pause(), stop(), seek() or load()
\* stopped changes neither getIsPlaying() nor getPosition(), and stops no
\* node, whenever it is delivered.
C27_StaleEndedIgnored ==
    [][ ( /\ last'.op = "ended"
          /\ \/ last'.arg = 1 /\ source.st = "stopped" /\ source.touched
             \/ /\ last'.arg = 2
                /\ \E n \in BagToSet(orphans) :
                      /\ n.st = "stopped" /\ n.touched /\ n.evt
                      /\ orphans' = orphans (-) SetToBag({n}) )
        => /\ isPlaying' = isPlaying
           /\ Pos' = Pos
           /\ NumPlaying' = NumPlaying ]_vars

\* C28: when pause() or stop() is called while a play() is suspended at
\* `await ctx.resume()` and that play() continues next, the engine is PAUSED
\* afterwards and no source is running.
C28_PauseBeatsPendingPlay ==
    [][ ( /\ last.op \in {"pause", "stop"}
          /\ playsPending > 0
          /\ last'.op = "playResume" )
        => /\ ~getIsPlaying(Eng)'
           /\ NumPlaying' = 0 ]_vars

\* C23: every action of the media session that the mirror handles reaches
\* the engine as the operation it names: play as play(), pause as pause(),
\* stop as stop(), seekto as seek(time) (a seekto that carries no time
\* leaves the engine alone), seekbackward and seekforward as
\* seek(getPosition() - step) and seek(getPosition() + step).
\* The step is the offset the command carries and, when it carries none,
\* the default seek step of the registration, which is 10 seconds unless
\* the options of the registration name another.
C23_CommandsForwarded ==
    [][ LET step == IF last'.arg.seekOffset # Absent
                    THEN last'.arg.seekOffset[1] * Scale
                    ELSE ms.opts.defaultSeekStep * Scale
        IN
        /\ last'.op = "os.play" => Eng' = playCall(Eng)
        /\ last'.op = "os.pause" => Eng' = touch(Eng, pause(Eng, clock))
        /\ last'.op = "os.stop" => Eng' = touch(Eng, stop(Eng, clock))
        /\ last'.op = "os.seekto"
              => Eng' = IF last'.arg.seekTime = Absent THEN Eng
                        ELSE touch(Eng, seek(Eng, clock,
                                             last'.arg.seekTime[1] * Scale))
        /\ last'.op = "os.seekbackward"
              => Eng' = touch(Eng, seek(Eng, clock, Pos - step))
        /\ last'.op = "os.seekforward"
              => Eng' = touch(Eng, seek(Eng, clock, Pos + step))
        /\ ( /\ last'.op \in {"registerMediaSessionHandlers",
                              "integrateWithOSMedia"}
             /\ supportsMediaSession(ms) )
              => /\ Commands \subseteq ms'.handlers
                 /\ ms'.opts.defaultSeekStep =
                        IF last'.arg.defaultSeekStep = Absent THEN 10
                        ELSE last'.arg.defaultSeekStep[1] ]_vars

\* a seekforward that carries no offset, handled under the default options
\* on a paused engine: the step of 10 seconds takes the playhead to the end
C23_Witness ==
    /\ last.op = "os.seekforward"
    /\ last.arg.seekOffset = Absent
    /\ ms.opts = DEFAULTS
    /\ last.was = "PAUSED"
    /\ pausedAt = buffer

C29_PublishedStateBounded ==
    [][ LET published(m) == <<m.metadata, m.playbackState, m.positionState>>
            ps == ms'.positionState
            registers == last'.op \in {"registerMediaSessionHandlers",
                                       "integrateWithOSMedia"}
        IN
        /\ ps # ms.positionState
              => /\ buffer' > 0
                 /\ ps.duration = buffer'
        /\ ps # NoPositionState
              => /\ ps.duration > 0
                 /\ 0 <= ps.position /\ ps.position <= ps.duration
                 /\ RateDen <= ps.playbackRate
                 /\ ps.playbackRate <= MaxRate * MinRateInv * RateDen
        /\ (registers /\ ms.platform # "none")
              => ms'.interval =
                    IF last'.arg.positionSyncIntervalMs = Absent THEN 500
                    ELSE last'.arg.positionSyncIntervalMs[1]
        /\ last'.op = "poll"
              => /\ ms.interval # 0
                 /\ ms'.playbackState =
                        IF isPlaying THEN "playing" ELSE "paused"
                 /\ (ms.platform = "full" /\ buffer > 0)
                       => ps = [duration |-> buffer,
                                position |-> Max(0, Min(buffer, Pos)),
                                playbackRate |->
                                    Max(RateDen,
                                        Min(MaxRate * MinRateInv * RateDen,
                                            playbackRate * MinRateInv))]
        /\ (ms.interval # 0 /\ last'.op # "cleanup")
              => ms'.interval = ms.interval
        /\ last'.op = "cleanup"
              => /\ ms'.interval = 0
                 /\ ms'.handlers = {}
                 /\ ~ms'.listening
        /\ (ms.interval = 0 /\ ~registers)
              => /\ ms'.interval = 0
                 /\ ms'.handlers = {}
                 /\ published(ms') # published(ms)
                       => last'.op \in {"setMediaMetadata",
                                        "updatePlaybackState",
                                        "updatePositionState"} ]_vars

\* a poll on a paused engine whose playhead lies behind the end of its
\* buffer and whose rate is 8.0: the session gets the end of the buffer as
\* the position and 4 as the rate
C29_Witness ==
    /\ last.op = "poll"
    /\ ms.platform = "full"
    /\ buffer > 0
    /\ pausedAt > buffer
    /\ playbackRate > MaxRate * RateDen
    /\ ms.positionState = [duration |-> buffer, position |-> buffer,
                           playbackRate |-> MaxRate * MinRateInv * RateDen]

====
